---- MODULE Spec2Model ----
(***************************************************************************)
(* varnish_request_exporter: start-up (flags, varnishncsa arguments, path  *)
(* mappings), the ingest goroutine that turns varnishncsa lines into       *)
(* histogram observations, the goroutine that waits on the subprocess, and *)
(* the signal path of main.                                                *)
(*                                                                         *)
(* Text is a sequence of one-character strings.  Four specifications:      *)
(*   Spec          the exporter as a whole                                 *)
(*   SpecMappings  parseMappings over every file of short lines            *)
(*   SpecArgs      buildVslQuery / buildVarnishNCSAFormat / ...Args over   *)
(*                 every flag combination                                  *)
(*   SpecConc      several goroutines running the register-or-get body of  *)
(*                 the observation loop for one metric at once             *)
(***************************************************************************)
EXTENDS Integers, Sequences, FiniteSets, TLC

VARIABLES
    \* flags (package-level vars, set by flag.Parse)
    httpHost, userQuery, instance, beFirstByte, sizes, mappingsFile,
    \* main goroutine
    mainPc, vslQuery, varnishFormat, cmdArgs,
    \* parseMappings
    fileLines, lineNo, pathMappings, scanned,
    \* process
    procState, exitedBy, loggedMsgs, sigChan,
    \* varnishncsa subprocess and its stdout pipe
    cmdState, emitted, pipe, pipeClosed,
    \* ingest goroutine
    wpc, content, metrics, labels, perr, idx, rerr,
    varnishMessages, varnishParseFailures, msgs,
    \* prometheus default registry
    registry, nRegistered,
    \* goroutine waiting on the subprocess
    waitPc,
    \* history of the line in progress
    outcome, before, nFailed,
    \* SpecConc: concurrent observers
    opc, oerr, oval

vars == << httpHost, userQuery, instance, beFirstByte, sizes, mappingsFile,
           mainPc, vslQuery, varnishFormat, cmdArgs,
           fileLines, lineNo, pathMappings, scanned,
           procState, exitedBy, loggedMsgs, sigChan,
           cmdState, emitted, pipe, pipeClosed,
           wpc, content, metrics, labels, perr, idx, rerr,
           varnishMessages, varnishParseFailures, msgs,
           registry, nRegistered, waitPc,
           outcome, before, nFailed,
           opc, oerr, oval >>

flagVars == << httpHost, userQuery, instance, beFirstByte, sizes, mappingsFile >>
argVars == << vslQuery, varnishFormat, cmdArgs >>
mapVars == << fileLines, lineNo, pathMappings, scanned >>
cmdVars == << cmdState, emitted, pipe, pipeClosed >>
workerVars == << wpc, content, metrics, labels, perr, idx, rerr,
                 varnishMessages, varnishParseFailures, msgs,
                 outcome, before, nFailed >>
regVars == << registry, nRegistered >>
concVars == << opc, oerr, oval >>
exitVars == << procState, exitedBy, loggedMsgs >>

----------------------------------------------------------------------------
(* Bounds *)

\* longest line of a mappings file
MaxLineLen == 5
\* most lines read from a mappings file
MaxFileLines == 2
\* most lines the subprocess writes
MaxLines == 2
\* goroutines of SpecConc
NumObservers == 3

----------------------------------------------------------------------------
(* Text helpers *)

Space == " "
Hash == "#"

\* \s of the two regular expressions, over the model's alphabet
IsSpace(c) == c = Space

\* s[from..] (1-based), empty when from is past the end
Tail_(s, from) == SubSeq(s, from, Len(s))

\* first index >= i whose character is not white space, Len(s)+1 if none
RECURSIVE SkipSpace(_, _)
SkipSpace(s, i) ==
    IF i > Len(s) THEN i
    ELSE IF IsSpace(s[i]) THEN SkipSpace(s, i + 1) ELSE i

\* first index >= i whose character is white space, Len(s)+1 if none
RECURSIVE FindSpace(_, _)
FindSpace(s, i) ==
    IF i > Len(s) THEN i
    ELSE IF IsSpace(s[i]) THEN i ELSE FindSpace(s, i + 1)

\* text over an alphabet, up to a length
TextUpTo(alphabet, n) == UNION { [1..k -> alphabet] : k \in 0..n }

----------------------------------------------------------------------------
(* parseMappings *)

\* commentRegexp.ReplaceAllString(text, "") with commentRegexp =
\* (#.*|^\s+|\s+$): leftmost match first, alternatives in order, the search
\* resumed at the end of each match.  At index i: '#' deletes the rest;
\* white space at the start of the text deletes the leading run; white space
\* elsewhere matches only when it runs to the end of the text.
RECURSIVE StripFrom(_, _)
StripFrom(s, i) ==
    IF i > Len(s) THEN << >>
    ELSE IF s[i] = Hash THEN << >>
    ELSE IF IsSpace(s[i]) /\ i = 1 THEN StripFrom(s, SkipSpace(s, 1))
    ELSE IF IsSpace(s[i]) /\ SkipSpace(s, i) > Len(s) THEN << >>
    ELSE << s[i] >> \o StripFrom(s, i + 1)

StripComment(text) == StripFrom(text, 1)

\* splitRegexp.Split(line, 2) with splitRegexp = \s+ (regexp.Split): only the
\* first run of white space separates; the piece before it and the whole
\* tail after it are returned, the tail also when it is empty.
Split2(line) ==
    IF line = << >> THEN << << >> >>
    ELSE LET b == FindSpace(line, 1)
             e == SkipSpace(line, b)
         IN  IF b > Len(line) THEN << line >>
             ELSE << SubSeq(line, 1, b - 1), Tail_(line, e) >>

\* regexp.MustCompile: over the model's alphabet a pattern fails to compile
\* exactly when it holds an unclosed "("
Compiles(pattern) == \A i \in 1..Len(pattern) : pattern[i] # "("

pathMapping(pattern, replacement) == [Pattern |-> pattern, Replacement |-> replacement]

\* One iteration that leaves the rule sequence unchanged on a pattern that
\* does not compile and goes on (regexp.Compile with the error dropped).
ParseMappingLineLenient(mappings, text) ==
    LET line == StripComment(text)
        parts == Split2(line)
    IN  IF line = << >> THEN [mappings |-> mappings, panic |-> FALSE]
        ELSE IF ~Compiles(parts[1]) THEN [mappings |-> mappings, panic |-> FALSE]
        ELSE IF Len(parts) = 1
             THEN [mappings |-> Append(mappings, pathMapping(parts[1], << >>)),
                   panic |-> FALSE]
             ELSE [mappings |-> Append(mappings, pathMapping(parts[1], parts[2])),
                   panic |-> FALSE]

\* One iteration of the scan loop of parseMappings: the rules after the line,
\* and whether regexp.MustCompile panicked.
ParseMappingLine(mappings, text) ==
    LET line == StripComment(text)
        parts == Split2(line)
    IN  IF line = << >> THEN [mappings |-> mappings, panic |-> FALSE]
        ELSE IF ~Compiles(parts[1]) THEN [mappings |-> mappings, panic |-> TRUE]
        ELSE IF Len(parts) = 1
             THEN [mappings |-> Append(mappings, pathMapping(parts[1], << >>)),
                   panic |-> FALSE]
             ELSE [mappings |-> Append(mappings, pathMapping(parts[1], parts[2])),
                   panic |-> FALSE]

----------------------------------------------------------------------------
(* varnishncsa command line *)

\* a Go string as a sequence of pieces, the empty string as no piece
Str(s) == IF s = "" THEN << >> ELSE << s >>

HostField == "host=\"%{host}i\""

buildVslQuery(host, query) ==
    IF host # ""
    THEN Str(query) \o (IF query # "" THEN << " and " >> ELSE << >>)
                    \o << "ReqHeader:host eq \"", host, "\"" >>
    ELSE Str(query)

\* the format is a space-separated list of fields: one element per field
buildVarnishNCSAFormat(host, firstByte, withSizes) ==
    << "method=\"%m\"", "status=%s", "path=\"%U\"",
       "cache=\"%{Varnish:hitmiss}x\"", HostField, "time:%D" >>
    \o (IF firstByte THEN << "time_firstbyte:%{Varnish:time_firstbyte}x" >> ELSE << >>)
    \o (IF withSizes THEN << "respsize:%b" >> ELSE << >>)

buildVarnishNCSAArgs(query, format, inst) ==
    << "-F", format >>
    \o (IF query # << >> THEN << "-q", query >> ELSE << >>)
    \o (IF inst # "" THEN << "-n", inst >> ELSE << >>)

Contains(seq, x) == \E i \in 1..Len(seq) : seq[i] = x

----------------------------------------------------------------------------
(* Path rewriting and parseMessage *)

\* Regexp.ReplaceAllString for a pattern of literal characters: every
\* non-overlapping occurrence, leftmost first, replaced
RECURSIVE ReplaceAllFrom(_, _, _, _)
ReplaceAllFrom(s, i, pat, repl) ==
    IF i > Len(s) THEN << >>
    ELSE IF i + Len(pat) - 1 <= Len(s) /\ SubSeq(s, i, i + Len(pat) - 1) = pat
         THEN repl \o ReplaceAllFrom(s, i + Len(pat), pat, repl)
         ELSE << s[i] >> \o ReplaceAllFrom(s, i + 1, pat, repl)

\* every rule applied in order, each to the output of the one before
RECURSIVE normalize(_, _)
normalize(path, rules) ==
    IF rules = << >> THEN path
    ELSE normalize(ReplaceAllFrom(path, 1, rules[1].Pattern, rules[1].Replacement),
                   Tail(rules))

Nil == "nil"
DecodeError == "DecodeError"

Tok(name, sep, value) == [name |-> name, sep |-> sep, value |-> value]

HasField(line, name) == \E i \in 1..Len(line) : line[i].name = name
Field(line, name) == line[CHOOSE i \in 1..Len(line) : line[i].name = name].value

LabelOrder == << "method", "status", "path", "cache", "host" >>
MetricOrder == << "time", "time_firstbyte", "respsize" >>
MetricNames == { MetricOrder[i] : i \in 1..Len(MetricOrder) }
RequiredFields == { "method", "status", "path", "time" }
StatusCodes == { "200", "404" }

\* the elements of order that the line holds and that keep holds, in order
RECURSIVE Present(_, _, _)
Present(line, order, keep) ==
    IF order = << >> THEN << >>
    ELSE (IF HasField(line, Head(order)) /\ Head(order) \in keep
          THEN << Head(order) >> ELSE << >>) \o Present(line, Tail(order), keep)

\* milliseconds to seconds for the durations, bytes as they are
ValueOf(line, name) ==
    [num |-> Field(line, name), den |-> IF name = "respsize" THEN 1 ELSE 1000]

\* parseMessage(content, pathMappings): metrics, labels, err.  A required
\* field that is missing or ill-typed gives an error; the host label is left
\* out when one virtual host is pinned.  Go returns all three results also
\* with an error; what was decoded is kept in them, so that only the caller's
\* check of err keeps it from being used.
parseMessage(src, mappings, pinnedHost) ==
    LET names == Present(src, LabelOrder,
                         IF pinnedHost # "" THEN { "method", "status", "path", "cache" }
                         ELSE { "method", "status", "path", "cache", "host" })
        values == [i \in 1..Len(names) |->
                      IF names[i] = "path" THEN normalize(Field(src, "path"), mappings)
                      ELSE Field(src, names[i])]
        mnames == Present(src, MetricOrder, MetricNames)
        ms == [i \in 1..Len(mnames) |->
                  [Name |-> mnames[i], Value |-> ValueOf(src, mnames[i])]]
        ok == /\ \A f \in RequiredFields : HasField(src, f)
              /\ Field(src, "status") \in StatusCodes
    IN  [metrics |-> ms,
         labels |-> [Names |-> names, Values |-> values],
         err |-> IF ok THEN Nil ELSE DecodeError]

----------------------------------------------------------------------------
(* prometheus registry, as the observation loop uses it *)

NoCollector == [registered |-> FALSE]
AlreadyRegistered == "AlreadyRegisteredError"
Inconsistent == "inconsistent label names"

\* prometheus.NewHistogramVec(opts, labels.Names): no series yet
NewHistogramVec(name, names) ==
    [registered |-> TRUE, Name |-> name, Names |-> names, counts |-> << >>]

\* prometheus.Register(c), one critical section of the registry: a collector
\* of that name and label names is already there, or the name is taken with
\* other label names, or c is added
Register(reg, c) ==
    IF reg[c.Name].registered
    THEN [err |-> IF reg[c.Name].Names = c.Names THEN AlreadyRegistered ELSE Inconsistent,
          reg |-> reg]
    ELSE [err |-> Nil, reg |-> [reg EXCEPT ![c.Name] = c]]

SampleCount(c, values) ==
    IF c.registered /\ values \in DOMAIN c.counts THEN c.counts[values] ELSE 0

\* WithLabelValues(values...).Observe(v) adding two samples
ObserveTwice(c, values) ==
    [c EXCEPT !.counts = [v \in DOMAIN c.counts \cup { values } |->
                             IF v = values THEN SampleCount(c, values) + 2
                             ELSE c.counts[v]]]

\* collector.WithLabelValues(values...).Observe(v): one more sample in the
\* series of these label values, created at the first one
Observe(c, values) ==
    [c EXCEPT !.counts = [v \in DOMAIN c.counts \cup { values } |->
                             IF v = values THEN SampleCount(c, values) + 1
                             ELSE c.counts[v]]]

\* the collector observed into, keeping the new one whatever Register said
ResolveCollectorNoFallback(err) == "new"

\* lines 125-132: the new collector, the existing one of an
\* AlreadyRegisteredError, or none (log and continue)
ResolveCollector(err) ==
    IF err = Nil THEN "new"
    ELSE IF err = AlreadyRegistered THEN "existing"
    ELSE "none"

\* the registry after the observation goes to the resolved collector: the
\* new collector is in the registry only when Register returned nil
Record(reg, name, values, target, err) ==
    IF target = "existing" \/ (target = "new" /\ err = Nil)
    THEN [reg EXCEPT ![name] = Observe(reg[name], values)]
    ELSE reg

----------------------------------------------------------------------------
(* The ingest loop's control flow *)

\* line 112-116 without the continue: the observation loop is entered
\* whatever parseMessage returned
AfterParseNoContinue(err, ms) == IF Len(ms) >= 1 THEN "register" ELSE "scan"

\* lines 112-116: an error is logged and the next line is read; otherwise
\* the loop over the metrics starts
AfterParse(err, ms) ==
    IF err # Nil THEN "scan"
    ELSE IF Len(ms) >= 1 THEN "register" ELSE "scan"

\* the loop over the metrics ending one metric early
LoopNextOffByOne(target, i, n) == IF i + 1 < n THEN "register" ELSE "scan"

\* a failed registration leaving the loop over the metrics (break)
LoopNextBreak(target, i, n) ==
    IF target = "none" THEN "scan"
    ELSE IF i < n THEN "register" ELSE "scan"

\* lines 116, 130, 134: after the continue as after Observe, the next metric
\* of the line if there is one, else the next line
LoopNext(target, i, n) == IF i < n THEN "register" ELSE "scan"

----------------------------------------------------------------------------
(* Inputs *)

\* lines of a mappings file in Spec: a rule a -> b, and a pattern that does
\* not compile
RuleLines == { << "a", Space, "b" >>, << "(" >> }

\* every line of a mappings file in SpecMappings
AllLines == TextUpTo({ "a", Space, Hash }, MaxLineLen)

BaseLine(path) ==
    << Tok("method", "=", "GET"), Tok("status", "=", "200"), Tok("path", "=", path),
       Tok("cache", "=", "hit"), Tok("host", "=", "example.com"), Tok("time", ":", 123) >>

\* without the element at i
Without(line, i) == SubSeq(line, 1, i - 1) \o SubSeq(line, i + 1, Len(line))

LineA == BaseLine(<< "a" >>)
LineNoStatus == Without(LineA, 2)
LineNoHostFb == Without(LineA, 5) \o << Tok("time_firstbyte", ":", 5) >>
LineBAll == BaseLine(<< "b" >>)
            \o << Tok("time_firstbyte", ":", 5), Tok("respsize", ":", 1024) >>

\* what the subprocess may write: a full line, one lacking its status, one
\* lacking its host and carrying a first-byte time, one carrying all metrics
LineSource == { LineA, LineNoStatus, LineNoHostFb, LineBAll }

Observers == 1..NumObservers
ConcNames == << "method", "status", "path" >>
ConcValues == { << "GET", "200", << "a" >> >>, << "GET", "200", << "b" >> >> }

----------------------------------------------------------------------------
(* Initial states *)

InitArgs ==
    /\ vslQuery = << >>
    /\ varnishFormat = << >>
    /\ cmdArgs = << >>

InitMappings ==
    /\ lineNo = 0
    /\ pathMappings = << >>
    /\ scanned = << >>

InitProcess ==
    /\ procState = "running"
    /\ exitedBy = "none"
    /\ loggedMsgs = 0
    /\ sigChan = FALSE
    /\ cmdState = "unstarted"
    /\ emitted = 0
    /\ pipe = << >>
    /\ pipeClosed = FALSE
    /\ waitPc = "idle"

InitWorker ==
    /\ wpc = "idle"
    /\ content = << >>
    /\ metrics = << >>
    /\ labels = [Names |-> << >>, Values |-> << >>]
    /\ perr = Nil
    /\ idx = 0
    /\ rerr = Nil
    /\ varnishMessages = 0
    /\ varnishParseFailures = 0
    /\ msgs = 0
    /\ outcome = << >>
    /\ nFailed = 0

InitRegistry ==
    /\ registry = [n \in MetricNames |-> NoCollector]
    /\ before = [n \in MetricNames |-> NoCollector]
    /\ nRegistered = 0

InitConcIdle ==
    /\ opc = [o \in Observers |-> "idle"]
    /\ oerr = [o \in Observers |-> Nil]
    /\ oval = [o \in Observers |-> << >>]

Init ==
    /\ httpHost \in { "", "a.example" }
    /\ userQuery = ""
    /\ instance = ""
    /\ beFirstByte = FALSE
    /\ sizes = FALSE
    /\ mappingsFile \in { "", "mappings" }
    /\ fileLines = RuleLines
    /\ mainPc = "buildVslQuery"
    /\ InitArgs /\ InitMappings /\ InitProcess /\ InitWorker /\ InitRegistry
    /\ InitConcIdle

InitSpecMappings ==
    /\ httpHost = ""
    /\ userQuery = ""
    /\ instance = ""
    /\ beFirstByte = FALSE
    /\ sizes = FALSE
    /\ mappingsFile \in { "", "mappings" }
    /\ fileLines = AllLines
    /\ mainPc = "parseMappings"
    /\ InitArgs /\ InitMappings /\ InitProcess /\ InitWorker /\ InitRegistry
    /\ InitConcIdle

InitSpecArgs ==
    /\ httpHost \in { "", "a.example", "b.example" }
    /\ userQuery \in { "", "ReqMethod eq GET" }
    /\ instance \in { "", "varnish1" }
    /\ beFirstByte \in BOOLEAN
    /\ sizes \in BOOLEAN
    /\ mappingsFile = ""
    /\ fileLines = { }
    /\ mainPc = "buildVslQuery"
    /\ InitArgs /\ InitMappings /\ InitProcess /\ InitWorker /\ InitRegistry
    /\ InitConcIdle

InitSpecConc ==
    /\ httpHost = ""
    /\ userQuery = ""
    /\ instance = ""
    /\ beFirstByte = FALSE
    /\ sizes = FALSE
    /\ mappingsFile = ""
    /\ fileLines = { }
    /\ mainPc = "waitSignal"
    /\ InitArgs /\ InitMappings /\ InitProcess /\ InitWorker /\ InitRegistry
    /\ opc = [o \in Observers |-> "register"]
    /\ oerr = [o \in Observers |-> Nil]
    /\ oval \in [Observers -> ConcValues]

----------------------------------------------------------------------------
(* main: start-up *)

Running == procState = "running"

BuildVslQuery ==
    /\ Running /\ mainPc = "buildVslQuery"
    /\ vslQuery' = buildVslQuery(httpHost, userQuery)
    /\ mainPc' = "buildFormat"
    /\ UNCHANGED << flagVars, varnishFormat, cmdArgs, mapVars, exitVars, sigChan,
                    cmdVars, workerVars, regVars, waitPc, concVars >>

BuildFormat ==
    /\ Running /\ mainPc = "buildFormat"
    /\ varnishFormat' = buildVarnishNCSAFormat(httpHost, beFirstByte, sizes)
    /\ mainPc' = "buildArgs"
    /\ UNCHANGED << flagVars, vslQuery, cmdArgs, mapVars, exitVars, sigChan,
                    cmdVars, workerVars, regVars, waitPc, concVars >>

BuildArgs ==
    /\ Running /\ mainPc = "buildArgs"
    /\ cmdArgs' = buildVarnishNCSAArgs(vslQuery, varnishFormat, instance)
    /\ mainPc' = "parseMappings"
    /\ UNCHANGED << flagVars, vslQuery, varnishFormat, mapVars, exitVars, sigChan,
                    cmdVars, workerVars, regVars, waitPc, concVars >>

\* parseMappings with no file named: no rule, nothing opened
ParseMappingsNoFile ==
    /\ Running /\ mainPc = "parseMappings"
    /\ mappingsFile = ""
    /\ pathMappings' = << >>
    /\ mainPc' = "startIngest"
    /\ UNCHANGED << flagVars, argVars, fileLines, lineNo, scanned, exitVars, sigChan,
                    cmdVars, workerVars, regVars, waitPc, concVars >>

OpenMappings ==
    /\ Running /\ mainPc = "parseMappings"
    /\ mappingsFile # ""
    /\ mainPc' = "scanMappings"
    /\ UNCHANGED << flagVars, argVars, mapVars, exitVars, sigChan,
                    cmdVars, workerVars, regVars, waitPc, concVars >>

\* os.Open fails: log.Fatal
OpenMappingsFails ==
    /\ Running /\ mainPc = "parseMappings"
    /\ mappingsFile # ""
    /\ procState' = "fatal"
    /\ UNCHANGED << flagVars, mainPc, argVars, mapVars, exitedBy, loggedMsgs, sigChan,
                    cmdVars, workerVars, regVars, waitPc, concVars >>

\* one iteration of the scan loop: the next line of the file, whatever it
\* holds; a pattern that does not compile panics out of main
ScanMappingLine ==
    /\ Running /\ mainPc = "scanMappings"
    /\ lineNo < MaxFileLines
    /\ \E text \in fileLines :
          LET r == ParseMappingLine(pathMappings, text)
          IN  /\ lineNo' = lineNo + 1
              /\ scanned' = Append(scanned, text)
              /\ pathMappings' = r.mappings
              /\ procState' = IF r.panic THEN "panic" ELSE procState
    /\ UNCHANGED << flagVars, mainPc, argVars, fileLines, exitedBy, loggedMsgs, sigChan,
                    cmdVars, workerVars, regVars, waitPc, concVars >>

\* end of file: parseMappings returns the rules
ScanMappingsEnd ==
    /\ Running /\ mainPc = "scanMappings"
    /\ mainPc' = "startIngest"
    /\ UNCHANGED << flagVars, argVars, mapVars, exitVars, sigChan,
                    cmdVars, workerVars, regVars, waitPc, concVars >>

\* the two counters are set up and the ingest goroutine is started
StartIngest ==
    /\ Running /\ mainPc = "startIngest"
    /\ wpc' = "scan"
    /\ mainPc' = "startWait"
    /\ UNCHANGED << flagVars, argVars, mapVars, exitVars, sigChan, cmdVars,
                    content, metrics, labels, perr, idx, rerr,
                    varnishMessages, varnishParseFailures, msgs,
                    outcome, before, nFailed, regVars, waitPc, concVars >>

\* the goroutine that starts varnishncsa and waits for it is started
StartWait ==
    /\ Running /\ mainPc = "startWait"
    /\ waitPc' = "start"
    /\ mainPc' = "waitSignal"
    /\ UNCHANGED << flagVars, argVars, mapVars, exitVars, sigChan, cmdVars,
                    workerVars, regVars, concVars >>

----------------------------------------------------------------------------
(* Signals *)

\* SIGTERM or SIGINT is delivered into the buffered channel
Signal ==
    /\ Running /\ ~sigChan
    /\ sigChan' = TRUE
    /\ UNCHANGED << flagVars, mainPc, argVars, mapVars, exitVars,
                    cmdVars, workerVars, regVars, waitPc, concVars >>

\* main receives the signal, logs msgs (read with no synchronisation: any
\* value it has held) and exits
MainSignalled ==
    /\ Running /\ mainPc = "waitSignal" /\ sigChan
    /\ \E n \in 0..msgs : loggedMsgs' = n
    /\ procState' = "exit0"
    /\ exitedBy' = "signal"
    /\ UNCHANGED << flagVars, mainPc, argVars, mapVars, sigChan,
                    cmdVars, workerVars, regVars, waitPc, concVars >>

----------------------------------------------------------------------------
(* varnishncsa and the goroutine waiting on it *)

WaiterStart ==
    /\ Running /\ waitPc = "start"
    /\ cmdState' = "running"
    /\ waitPc' = "wait"
    /\ UNCHANGED << flagVars, mainPc, argVars, mapVars, exitVars, sigChan,
                    emitted, pipe, pipeClosed, workerVars, regVars, concVars >>

\* cmd.Start fails: log.Fatal
WaiterStartFails ==
    /\ Running /\ waitPc = "start"
    /\ procState' = "fatal"
    /\ UNCHANGED << flagVars, mainPc, argVars, mapVars, exitedBy, loggedMsgs, sigChan,
                    cmdVars, workerVars, regVars, waitPc, concVars >>

\* the subprocess writes one line to its standard output
CmdEmit ==
    /\ Running /\ cmdState = "running"
    /\ emitted < MaxLines
    /\ \E line \in LineSource : pipe' = Append(pipe, line)
    /\ emitted' = emitted + 1
    /\ UNCHANGED << flagVars, mainPc, argVars, mapVars, exitVars, sigChan,
                    cmdState, pipeClosed, workerVars, regVars, waitPc, concVars >>

\* the subprocess exits, with status 0 or not
CmdExit ==
    /\ Running /\ cmdState = "running"
    /\ \E st \in { "exited", "failed" } : cmdState' = st
    /\ UNCHANGED << flagVars, mainPc, argVars, mapVars, exitVars, sigChan,
                    emitted, pipe, pipeClosed, workerVars, regVars, waitPc, concVars >>

\* cmd.Wait returns once the subprocess has exited, and closes the read end
\* of the pipe; a non-zero status is fatal
WaiterWait ==
    /\ Running /\ waitPc = "wait"
    /\ cmdState \in { "exited", "failed" }
    /\ pipeClosed' = TRUE
    /\ procState' = IF cmdState = "failed" THEN "fatal" ELSE procState
    /\ waitPc' = "exit"
    /\ UNCHANGED << flagVars, mainPc, argVars, mapVars, exitedBy, loggedMsgs, sigChan,
                    cmdState, emitted, pipe, workerVars, regVars, concVars >>

\* "Messages received: msgs" is logged (msgs read with no synchronisation)
\* and the process exits
WaiterExit ==
    /\ Running /\ waitPc = "exit"
    /\ \E n \in 0..msgs : loggedMsgs' = n
    /\ procState' = "exit0"
    /\ exitedBy' = "waiter"
    /\ UNCHANGED << flagVars, mainPc, argVars, mapVars, sigChan,
                    cmdVars, workerVars, regVars, waitPc, concVars >>

----------------------------------------------------------------------------
(* The ingest goroutine *)

\* scanner.Scan returns a line: both counters of lines are incremented.  A
\* line already buffered is still returned after the pipe was closed.
WorkerScan ==
    /\ Running /\ wpc = "scan"
    /\ pipe # << >>
    /\ content' = Head(pipe)
    /\ pipe' = Tail(pipe)
    /\ varnishMessages' = varnishMessages + 1
    /\ msgs' = msgs + 1
    /\ metrics' = << >>
    /\ labels' = [Names |-> << >>, Values |-> << >>]
    /\ perr' = Nil
    /\ rerr' = Nil
    /\ idx' = 0
    /\ outcome' = << >>
    /\ before' = registry
    /\ wpc' = "parse"
    /\ UNCHANGED << flagVars, mainPc, argVars, mapVars, exitVars, sigChan,
                    cmdState, emitted, pipeClosed, varnishParseFailures, nFailed,
                    regVars, waitPc, concVars >>

\* scanner.Scan returns false: end of input, or the read end was closed
WorkerScanEnd ==
    /\ Running /\ wpc = "scan"
    /\ pipeClosed \/ (pipe = << >> /\ cmdState \in { "exited", "failed" })
    /\ wpc' = "done"
    /\ UNCHANGED << flagVars, mainPc, argVars, mapVars, exitVars, sigChan, cmdVars,
                    content, metrics, labels, perr, idx, rerr,
                    varnishMessages, varnishParseFailures, msgs,
                    outcome, before, nFailed, regVars, waitPc, concVars >>

\* parseMessage and the check of its error
WorkerParse ==
    /\ Running /\ wpc = "parse"
    /\ LET r == parseMessage(content, pathMappings, httpHost)
       IN  /\ metrics' = r.metrics
           /\ labels' = r.labels
           /\ perr' = r.err
           /\ nFailed' = IF r.err # Nil THEN nFailed + 1 ELSE nFailed
           /\ wpc' = AfterParse(r.err, r.metrics)
    /\ idx' = 1
    /\ UNCHANGED << flagVars, mainPc, argVars, mapVars, exitVars, sigChan, cmdVars,
                    content, rerr, varnishMessages, varnishParseFailures, msgs,
                    outcome, before, regVars, waitPc, concVars >>

\* a histogram of the metric's name and the line's label names is made and
\* registered
WorkerRegister ==
    /\ Running /\ wpc = "register"
    /\ LET r == Register(registry, NewHistogramVec(metrics[idx].Name, labels.Names))
       IN  /\ registry' = r.reg
           /\ rerr' = r.err
           /\ nRegistered' = IF r.err = Nil THEN nRegistered + 1 ELSE nRegistered
    /\ wpc' = "handle"
    /\ UNCHANGED << flagVars, mainPc, argVars, mapVars, exitVars, sigChan, cmdVars,
                    content, metrics, labels, perr, idx,
                    varnishMessages, varnishParseFailures, msgs,
                    outcome, before, nFailed, waitPc, concVars >>

\* the error of Register is handled and the value observed, or the metric
\* skipped; then the next metric or the next line
WorkerHandle ==
    /\ Running /\ wpc = "handle"
    /\ LET target == ResolveCollector(rerr)
       IN  /\ registry' = Record(registry, metrics[idx].Name, labels.Values, target, rerr)
           /\ outcome' = Append(outcome, IF target = "none" THEN "dropped" ELSE "observed")
           /\ wpc' = LoopNext(target, idx, Len(metrics))
    /\ idx' = idx + 1
    /\ UNCHANGED << flagVars, mainPc, argVars, mapVars, exitVars, sigChan, cmdVars,
                    content, metrics, labels, perr, rerr,
                    varnishMessages, varnishParseFailures, msgs,
                    before, nFailed, nRegistered, waitPc, concVars >>

----------------------------------------------------------------------------
(* SpecConc: the body of the observation loop, run by several goroutines *)

ObserverRegister(o) ==
    /\ opc[o] = "register"
    /\ LET r == Register(registry, NewHistogramVec("time", ConcNames))
       IN  /\ registry' = r.reg
           /\ oerr' = [oerr EXCEPT ![o] = r.err]
           /\ nRegistered' = IF r.err = Nil THEN nRegistered + 1 ELSE nRegistered
    /\ opc' = [opc EXCEPT ![o] = "handle"]
    /\ UNCHANGED << flagVars, mainPc, argVars, mapVars, exitVars, sigChan, cmdVars,
                    workerVars, waitPc, oval >>

ObserverHandle(o) ==
    /\ opc[o] = "handle"
    /\ registry' = Record(registry, "time", oval[o], ResolveCollector(oerr[o]), oerr[o])
    /\ opc' = [opc EXCEPT ![o] = "done"]
    /\ UNCHANGED << flagVars, mainPc, argVars, mapVars, exitVars, sigChan, cmdVars,
                    workerVars, nRegistered, waitPc, oerr, oval >>

----------------------------------------------------------------------------
(* Specifications *)

Next ==
    \/ BuildVslQuery \/ BuildFormat \/ BuildArgs
    \/ ParseMappingsNoFile \/ OpenMappings \/ OpenMappingsFails
    \/ ScanMappingLine \/ ScanMappingsEnd
    \/ StartIngest \/ StartWait
    \/ Signal \/ MainSignalled
    \/ WaiterStart \/ WaiterStartFails \/ CmdEmit \/ CmdExit
    \/ WaiterWait \/ WaiterExit
    \/ WorkerScan \/ WorkerScanEnd \/ WorkerParse \/ WorkerRegister \/ WorkerHandle

Spec == Init /\ [][Next]_vars

NextMappings ==
    \/ ParseMappingsNoFile \/ OpenMappings \/ OpenMappingsFails
    \/ ScanMappingLine \/ ScanMappingsEnd

SpecMappings == InitSpecMappings /\ [][NextMappings]_vars

NextArgs == BuildVslQuery \/ BuildFormat \/ BuildArgs

SpecArgs == InitSpecArgs /\ [][NextArgs]_vars

NextConc == \E o \in Observers : ObserverRegister(o) \/ ObserverHandle(o)

SpecConc == InitSpecConc /\ [][NextConc]_vars

----------------------------------------------------------------------------
(* Properties *)

\* C1: after any sequence of input lines the parse-failure counter equals
\* the number of lines for which parseMessage returned an error.
C1_FailureCounter == varnishParseFailures = nFailed

\* C2: while the line in hand is one parseMessage failed on, no step creates
\* or registers a collector or changes a histogram.
C2_NoMutationOnError ==
    [][perr # Nil => (registry' = registry /\ nRegistered' = nRegistered)]_vars

\* a failed line was handled after an earlier line had registered a collector
C2_Witness ==
    /\ perr # Nil /\ wpc = "scan"
    /\ varnishMessages = 2
    /\ registry["time"].registered
    /\ registry = before

ConcDone == \A o \in Observers : opc[o] = "done"

\* C3: N concurrent first observations of one metric identity register
\* exactly one collector, and never more than one; once all are done every
\* observation is in it, under every interleaving.
C3_ExactlyOnce ==
    /\ nRegistered <= 1
    /\ ConcDone =>
          /\ nRegistered = 1
          /\ registry["time"].registered
          /\ DOMAIN registry["time"].counts \subseteq ConcValues
          /\ \A v \in ConcValues :
                SampleCount(registry["time"], v)
                   = Cardinality({ o \in Observers : oval[o] = v })

\* all done, one of them having fallen back to the existing collector, and
\* two of them having observed into the same series
C3_Witness ==
    /\ ConcDone
    /\ \E o \in Observers : oerr[o] = AlreadyRegistered
    /\ \E v \in ConcValues : SampleCount(registry["time"], v) >= 2

\* the worker is between lines and the last line it took parsed
LineDone == wpc \in { "scan", "done" } /\ varnishMessages > 0 /\ perr = Nil

\* every label-value tuple a series has or could have got
SeriesValues ==
    UNION { DOMAIN registry[n].counts : n \in { m \in MetricNames : registry[m].registered } }
    \cup { labels.Values }

\* C4 as claimed: a parsed line adds exactly one sample to the series of
\* each of its observations and changes no other series.
C4_EveryObservationCounted ==
    LineDone =>
       \A n \in MetricNames : \A v \in SeriesValues :
          SampleCount(registry[n], v)
             = SampleCount(before[n], v)
               + (IF labels.Values = v /\ \E i \in 1..Len(metrics) : metrics[i].Name = n
                  THEN 1 ELSE 0)

\* C4 amended: a parsed line adds exactly one sample to the series of each
\* of its observations whose collector was registered or found registered,
\* none for an observation whose registration failed otherwise, and changes
\* no other series; whether the collector is new or was there before.
C4_RegisteredObservationsCounted ==
    LineDone =>
       /\ Len(outcome) = Len(metrics)
       /\ \A n \in MetricNames : \A v \in SeriesValues :
             SampleCount(registry[n], v)
                = SampleCount(before[n], v)
                  + (IF labels.Values = v
                        /\ \E i \in 1..Len(metrics) :
                              metrics[i].Name = n /\ outcome[i] = "observed"
                     THEN 1 ELSE 0)

\* a line done with one observation into a collector of an earlier line and
\* one into a collector the line created
C4_Witness ==
    /\ LineDone
    /\ Len(outcome) = Len(metrics)
    /\ \E i, j \in 1..Len(metrics) :
          /\ outcome[i] = "observed" /\ before[metrics[i].Name].registered
          /\ outcome[j] = "observed" /\ ~before[metrics[j].Name].registered

\* C5: when Register fails with an error other than already-registered the
\* worker's next step records nothing, and goes to the next metric of the
\* line if there is one, else to reading the next line.
C5_DropAndContinue ==
    [][(wpc = "handle" /\ rerr \notin { Nil, AlreadyRegistered } /\ wpc' # "handle")
          => /\ registry' = registry
             /\ outcome' = Append(outcome, "dropped")
             /\ metrics' = metrics
             /\ idx' = idx + 1
             /\ wpc' = (IF idx < Len(metrics) THEN "register" ELSE "scan")]_vars

\* an observation of the line was dropped and a later one of the same line
\* observed
C5_Witness ==
    \E i, j \in 1..Len(outcome) :
       i < j /\ outcome[i] = "dropped" /\ outcome[j] = "observed"

Malformed(text) ==
    LET line == StripComment(text)
    IN  line # << >> /\ ~Compiles(Split2(line)[1])

MalformedIn(lines) == \E i \in 1..Len(lines) : Malformed(lines[i])

\* C6: once a rule that does not compile was read the ingest loop is never
\* started and reads no line; and once the loop is started the mappings are
\* loaded and never change.
C6_LoadBeforeLoop ==
    [][/\ MalformedIn(scanned') => (wpc' = "idle" /\ varnishMessages' = 0)
       /\ wpc # "idle" => (pathMappings' = pathMappings /\ scanned' = scanned
                           /\ mainPc \notin { "parseMappings", "scanMappings" })]_vars

\* the loop has read a line with rules loaded
C6_Witness == wpc # "idle" /\ varnishMessages > 0 /\ Len(pathMappings) > 0

\* the text before the first '#'
CutComment(text) ==
    IF \E i \in 1..Len(text) : text[i] = Hash
    THEN SubSeq(text, 1, (CHOOSE i \in 1..Len(text) :
                             text[i] = Hash /\ \A j \in 1..(i - 1) : text[j] # Hash) - 1)
    ELSE text

\* last index whose character is not white space, 0 if none
RECURSIVE LastNonSpace(_, _)
LastNonSpace(s, i) ==
    IF i = 0 THEN 0 ELSE IF IsSpace(s[i]) THEN LastNonSpace(s, i - 1) ELSE i

Trim(s) == SubSeq(s, SkipSpace(s, 1), LastNonSpace(s, Len(s)))

\* the rules C7 describes: per line that is not blank once its comment and
\* surrounding white space are gone, the first column and the trimmed rest
RECURSIVE ClaimRules(_)
ClaimRules(lines) ==
    IF lines = << >> THEN << >>
    ELSE LET t == Trim(CutComment(Head(lines)))
             b == FindSpace(t, 1)
         IN  (IF t = << >> THEN << >>
              ELSE << pathMapping(SubSeq(t, 1, b - 1), Trim(Tail_(t, b))) >>)
             \o ClaimRules(Tail(lines))

\* C7: parseMappings returns one rule per non-blank line, in file order, the
\* pattern the first column and the replacement the rest of the line with
\* no comment and no surrounding white space (empty for a single column);
\* no rule at all without a file name.
C7_OneRulePerLine == pathMappings = ClaimRules(scanned)

\* C8: the format holds the host field exactly when --varnish.host is not
\* given, whatever the firstbyte and sizes flags.
C8_HostFieldFollowsFlag ==
    mainPc \notin { "buildVslQuery", "buildFormat" }
       => (Contains(varnishFormat, HostField) <=> httpHost = "")

\* C9 as claimed: the process never ends with some but not all observations
\* of the line in hand recorded.
C9_NeverEndsMidLine ==
    procState # "running"
       => ~(/\ \E i \in 1..Len(outcome) : outcome[i] = "observed"
            /\ Len(outcome) < Len(metrics))

\* C9 amended: whenever the worker is between lines, the line it took last
\* either failed to parse and nothing was recorded for it, or every one of
\* its observations was attempted; the worker is inside a line's
\* observations only for a line that parsed.
C9_WorkerFinishesLine ==
    /\ (wpc \in { "scan", "done" } /\ varnishMessages > 0)
          => \/ perr # Nil /\ outcome = << >> /\ registry = before
             \/ perr = Nil /\ Len(outcome) = Len(metrics)
    /\ wpc \in { "register", "handle" }
          => perr = Nil /\ Len(outcome) = idx - 1 /\ idx <= Len(metrics)

\* a line of three observations was taken through all of them
C9_Witness == wpc = "scan" /\ perr = Nil /\ Len(outcome) = 3

\* C10: when the subprocess exited normally and the waiting goroutine ends
\* the exporter, every line written was read, counted and processed, and the
\* total logged is the number of lines written.
C10_NoLineLost ==
    (procState = "exit0" /\ exitedBy = "waiter")
       => /\ pipe = << >>
          /\ varnishMessages = emitted
          /\ msgs = emitted
          /\ wpc \in { "scan", "done" }
          /\ loggedMsgs = emitted

====
